---------------------------- MODULE Spec2Model ----------------------------
(***************************************************************************)
(* Model of the two scheduled scripts of earning-calendar-botless:         *)
(*   src/wsb_scrape_and_post.py  - the forum relay                         *)
(*   src/generate_and_post.py    - the calendar builder                    *)
(*                                                                         *)
(* Strings that the code takes apart (state-file text, URLs, titles) are   *)
(* sequences of tokens, so that strip(), lower(), html.unescape() and the  *)
(* image-URL regex are computed and not assumed.  Python's None is the     *)
(* one-token sequence None; an Optional[dict] is a sequence of length 0    *)
(* or 1.                                                                   *)
(***************************************************************************)
EXTENDS Integers, Sequences, FiniteSets, TLC

VARIABLES
    \* ---- forum relay (wsb_scrape_and_post.py) ----
    webhookUrl,    \* DISCORD_WEBHOOK_URL, read once at import
    stateFile,     \* last_earnings_post.txt: [exists, text]
    pc,            \* position of the running main()
    run,           \* number of the current run (runs do not overlap)
    fetchLog,      \* outcome of each http_get_json attempt of this run
    sleeps,        \* arguments of the time.sleep calls of this run
    data,          \* Optional search JSON: <<>> or <<children>>
    post,          \* Optional selected post: <<>> or <<p>>
    lastId,        \* value returned by read_last_post_id()
    imgUrl,        \* value returned by extract_best_image_url()
    webhook,       \* webhook POSTs of this run: [kind, ok]
    downloads,     \* image downloads of this run: [ok]
    writes,        \* number of write_last_post_id calls of this run
    runErr,        \* exception that ended the run, or NoErr
    fileAtStart,   \* history: stateFile when the run started
    selIds,        \* history: ids of the posts selected in all runs
    okPosts,       \* history: number of webhook POSTs that succeeded, all runs
    okRun,         \* history: run of the first successful POST, 0 if none
    \* ---- calendar builder (generate_and_post.py) ----
    cpc,           \* position of the calendar run
    apiKey,        \* FMP_API_KEY
    today,         \* today_utc, a proleptic Gregorian ordinal
    monday,
    friday,
    earnings,      \* list of earnings rows
    market_caps,   \* dict symbol -> cap (partial function)
    macro,         \* list of macro events
    week_days,     \* Optional week structure: <<>> or <<[keys, val]>>
    rendered,      \* the image has been drawn
    calErr         \* exception that ended the calendar run, or NoErr

forumVars == <<webhookUrl, stateFile, pc, run, fetchLog, sleeps, data, post,
               lastId, imgUrl, webhook, downloads, writes, runErr,
               fileAtStart, selIds, okPosts, okRun>>
calVars == <<cpc, apiKey, today, monday, friday, earnings, market_caps,
             macro, week_days, rendered, calErr>>
vars == <<forumVars, calVars>>

-----------------------------------------------------------------------------
(* Bounds of the model *)
MaxFeed == 1        \* children of a search result in the relay runs
MaxChildren == 2    \* children of a search result given to the chooser
MaxGallery == 2     \* entries of a gallery's media_metadata
MaxRuns == 2        \* consecutive runs of the forum script
MaxRows == 3        \* earnings rows of one fetch

(* Program constants *)
MaxAttempts == 3    \* range(3)
SleepBase == 2      \* time.sleep(2 + attempt)
MinScore == 4       \* score(p) >= 4
MIN_MCAP == 100000000

-----------------------------------------------------------------------------
(* Python values *)
None == <<"None">>
NoErr == <<>>
Truthy(s) == s # None /\ s # <<>>

RECURSIVE SeqsUpTo(_, _)
SeqsUpTo(S, n) ==
    IF n = 0 THEN {<<>>}
    ELSE LET prev == SeqsUpTo(S, n - 1)
         IN  prev \cup {Append(q, x) : q \in {r \in prev : Len(r) = n - 1}, x \in S}

Whitespace == {" ", "\n"}

RECURSIVE lstrip(_)
lstrip(t) == IF t # <<>> /\ Head(t) \in Whitespace THEN lstrip(Tail(t)) ELSE t

RECURSIVE rstrip(_)
rstrip(t) ==
    IF t # <<>> /\ t[Len(t)] \in Whitespace
    THEN rstrip(SubSeq(t, 1, Len(t) - 1)) ELSE t

strip(t) == rstrip(lstrip(t))

\* str.lower() on one word
lower(w) ==
    CASE w = "Weekly" -> "weekly"
      [] w = "Earnings" -> "earnings"
      [] w = "Thread" -> "thread"
      [] w = "Discussion" -> "discussion"
      [] OTHER -> w

\* "word" in text.lower(), for a text given as its words
Contains(text, word) == \E i \in 1..Len(text) : lower(text[i]) = word

\* html.unescape on one token, and on a URL
unescapeTok(t) ==
    CASE t = "&amp;" -> "&"
      [] t = "&lt;" -> "<"
      [] t = "&gt;" -> ">"
      [] OTHER -> t

html_unescape(u) == [i \in 1..Len(u) |-> unescapeTok(u[i])]

\* re.search(r"(i\.redd\.it|i\.imgur\.com|\.png$|\.jpg$|\.jpeg$|\.webp$)", url)
IsImageUrl(u) ==
    /\ u # None
    /\ Len(u) > 0
    /\ \/ \E i \in 1..Len(u) : u[i] \in {"i.redd.it", "i.imgur.com"}
       \/ u[Len(u)] \in {".png", ".jpg", ".jpeg", ".webp"}

-----------------------------------------------------------------------------
(* choose_latest_weekly_earnings_post *)

\* score(p): weighted keyword presence in title and flair
score(p) ==
    (IF Contains(p.title, "weekly") THEN 2 ELSE 0)
  + (IF Contains(p.title, "earnings") THEN 3 ELSE 0)
  + (IF Contains(p.title, "thread") THEN 1 ELSE 0)
  + (IF Contains(p.link_flair_text, "earnings") THEN 2 ELSE 0)

\* the sort key (score(p), p.get("created_utc", 0)), compared as Python tuples
KeyLess(p, q) ==
    \/ score(p) < score(q)
    \/ score(p) = score(q) /\ p.created_utc < q.created_utc

\* insertion of p into a list sorted in descending key order, after every
\* element whose key is not smaller: list.sort(reverse=True) is stable
RECURSIVE InsertDesc(_, _)
InsertDesc(sorted, p) ==
    IF sorted = <<>> THEN <<p>>
    ELSE IF KeyLess(Head(sorted), p) THEN <<p>> \o sorted
    ELSE <<Head(sorted)>> \o InsertDesc(Tail(sorted), p)

RECURSIVE SortDesc(_)
SortDesc(posts) ==
    IF posts = <<>> THEN <<>>
    ELSE InsertDesc(SortDesc(SubSeq(posts, 1, Len(posts) - 1)), posts[Len(posts)])

\* posts = [c.get("data") for c in children if ... c.get("data")]
RECURSIVE PostsOf(_)
PostsOf(children) ==
    IF children = <<>> THEN <<>>
    ELSE Head(children) \o PostsOf(Tail(children))

\* first post of the sorted list with score >= 4, else posts[0], else None
FirstPlausible(posts) ==
    LET hits == {i \in 1..Len(posts) : score(posts[i]) >= MinScore}
    IN  IF hits # {}
        THEN <<posts[CHOOSE i \in hits : \A j \in hits : i <= j]>>
        ELSE IF posts # <<>> THEN <<posts[1]>> ELSE <<>>

choose_latest_weekly_earnings_post(children) ==
    FirstPlausible(SortDesc(PostsOf(children)))

-----------------------------------------------------------------------------
(* extract_best_image_url *)

\* the loop over media_metadata.items(): (best, best_area) after the
\* entries from index i on
RECURSIVE GalleryBest(_, _, _, _)
GalleryBest(mm, i, best, best_area) ==
    IF i > Len(mm) THEN best
    ELSE LET m == mm[i]
         IN  IF Truthy(m.u) /\ m.x # 0 /\ m.y # 0 /\ m.x * m.y > best_area
             THEN GalleryBest(mm, i + 1, m.u, m.x * m.y)
             ELSE GalleryBest(mm, i + 1, best, best_area)

\* mutant: the preview image is tried before the gallery (the order of the
\* function's docstring)
OwnImageUrlPreviewFirst(p) ==
    LET best == GalleryBest(p.media_metadata, 1, None, -1)
        src == IF p.preview # <<>> THEN p.preview[1] ELSE None
        url == IF Truthy(p.url_overridden_by_dest)
               THEN p.url_overridden_by_dest ELSE p.url
    IN  IF Truthy(src) THEN html_unescape(src)
        ELSE IF p.media_metadata # <<>> /\ Truthy(best) THEN html_unescape(best)
        ELSE IF IsImageUrl(url) THEN html_unescape(url)
        ELSE None

\* the steps after the crosspost step: gallery, preview, direct URL
OwnImageUrl(p) ==
    LET best == GalleryBest(p.media_metadata, 1, None, -1)
        src == IF p.preview # <<>> THEN p.preview[1] ELSE None
        url == IF Truthy(p.url_overridden_by_dest)
               THEN p.url_overridden_by_dest ELSE p.url
    IN  IF p.media_metadata # <<>> /\ Truthy(best) THEN html_unescape(best)
        ELSE IF Truthy(src) THEN html_unescape(src)
        ELSE IF IsImageUrl(url) THEN html_unescape(url)
        ELSE None

RECURSIVE extract_best_image_url(_)
extract_best_image_url(p) ==
    LET cross == p.crosspost_parent_list
        url == IF cross # <<>> THEN extract_best_image_url(cross[1]) ELSE None
    IN  IF cross # <<>> /\ Truthy(url) THEN url ELSE OwnImageUrl(p)

-----------------------------------------------------------------------------
(* Inputs: the posts, search results and state files the runs are given *)

MkPost(id, title, flair, created, cross, mm, preview, over, url) ==
    [id |-> id, title |-> title, link_flair_text |-> flair,
     created_utc |-> created, crosspost_parent_list |-> cross,
     media_metadata |-> mm, preview |-> preview,
     url_overridden_by_dest |-> over, url |-> url]

TitleWeekly == <<"Weekly", "Earnings", "Thread">>      \* score 6
TitleEarnings == <<"earnings", "play">>                \* score 3
TitleThread == <<"Weekly", "Discussion", "thread">>    \* score 3
TitleOther == <<"yolo">>                               \* score 0
FlairEarnings == <<"Earnings", "Thread">>              \* score 2

UrlG1 == <<"preview.redd.it", "/g1", ".jpg">>
UrlG2 == <<"preview.redd.it", "/g2", ".jpg", "?w=1", "&amp;", "s=2">>
UrlP1 == <<"preview.redd.it", "/p1", ".png", "?w=1", "&amp;", "s=3">>
UrlDirect == <<"i.redd.it", "/d1", ".png">>
UrlPage == <<"reddit.com", "/r/wallstreetbets/comments/x">>

\* a missing id, an empty id, and two identifiers
PostIds == {None, <<>>, <<"a">>, <<"b">>}

\* posts of the relay runs: with or without id, plausible or not, with a
\* preview image or with no image at all
FeedPosts ==
    {MkPost(id, t, <<>>, 1, <<>>, <<>>, pv, None, UrlPage) :
        id \in PostIds, t \in {TitleWeekly, TitleOther}, pv \in {<<>>, <<UrlP1>>}}

Feeds == SeqsUpTo({<<p>> : p \in FeedPosts}, MaxFeed)

\* posts given to the chooser; a child without "data" is <<>>
ChooserPosts ==
    {MkPost(<<"a">>, t, f, c, <<>>, <<>>, <<>>, None, UrlPage) :
        t \in {TitleWeekly, TitleEarnings, TitleThread, TitleOther},
        f \in {<<>>, FlairEarnings}, c \in 0..2}

ChooserFeeds == SeqsUpTo({<<>>} \cup {<<p>> : p \in ChooserPosts}, MaxChildren)

\* posts given to the image extractor
GalleryEntries ==
    {[u |-> u, x |-> d[1], y |-> d[2]] :
        u \in {None, UrlG1, UrlG2},
        d \in {<<0, 2>>, <<1, 1>>, <<1, 2>>, <<2, 2>>}}

Galleries == SeqsUpTo(GalleryEntries, MaxGallery)

ParentPosts ==
    {MkPost(<<"b">>, TitleWeekly, <<>>, 1, <<>>, <<>>, pv, None, UrlPage) :
        pv \in {<<>>, <<UrlDirect>>}}

ImagePosts ==
    {MkPost(<<"a">>, TitleWeekly, <<>>, 1, cross, mm, pv, over, UrlPage) :
        cross \in {<<>>} \cup {<<q>> : q \in ParentPosts},
        mm \in Galleries,
        pv \in {<<>>, <<None>>, <<UrlP1>>},
        over \in {None, UrlDirect, UrlPage}}

StateFiles ==
    {[exists |-> FALSE, text |-> <<>>]} \cup
    {[exists |-> TRUE, text |-> t] :
        t \in {<<>>, <<"\n">>, <<"a">>, <<"a", "\n">>, <<"b">>}}

-----------------------------------------------------------------------------
(* wsb_scrape_and_post.py: state file *)

\* mutant: the file's text compared as it is, without strip()
read_last_post_id_nostrip(f) ==
    IF f.exists THEN (IF f.text # <<>> THEN f.text ELSE None) ELSE None

read_last_post_id(f) ==
    IF f.exists
    THEN LET txt == strip(f.text) IN IF txt # <<>> THEN txt ELSE None
    ELSE None

write_last_post_id(post_id) == [exists |-> TRUE, text |-> post_id]

\* last_id and post_id and post_id == last_id
IsDuplicate(last_id, post_id) ==
    Truthy(last_id) /\ Truthy(post_id) /\ post_id = last_id

-----------------------------------------------------------------------------
(* wsb_scrape_and_post.py: main(), one action per step *)

\* locals of a run that has not started its work
FreshLocals ==
    /\ fetchLog = <<>>
    /\ sleeps = <<>>
    /\ data = <<>>
    /\ post = <<>>
    /\ lastId = None
    /\ imgUrl = None
    /\ webhook = <<>>
    /\ downloads = <<>>
    /\ writes = 0
    /\ runErr = NoErr

NoHistory == selIds = {} /\ okPosts = 0 /\ okRun = 0

CalOff ==
    /\ cpc = "off"
    /\ apiKey = ""
    /\ today = 0
    /\ monday = 0
    /\ friday = 0
    /\ earnings = <<>>
    /\ market_caps = [sym \in {} |-> 0]
    /\ macro = <<>>
    /\ week_days = <<>>
    /\ rendered = FALSE
    /\ calErr = NoErr

Init ==
    /\ webhookUrl \in {"", "https://discord.test/hook"}
    /\ stateFile \in StateFiles
    /\ fileAtStart = stateFile
    /\ pc = "main"
    /\ run = 1
    /\ FreshLocals
    /\ NoHistory
    /\ CalOff

Raise(err) == pc' = "aborted" /\ runErr' = err

\* the exception of attempt number a (0-based) of the retry loop
FetchError(a) == <<"RequestException", a>>

\* mutant: one attempt more
LoopRunsOneMore(attempt) == attempt <= MaxAttempts

\* for attempt in range(3)
LoopRuns(attempt) == attempt < MaxAttempts

\* time.sleep(2 + attempt)
Delay(attempt) == SleepBase + attempt

\* RuntimeError(f"Failed to fetch Reddit search JSON: {last_err}")
FetchFailure(log) == <<"Failed to fetch Reddit search JSON", log[Len(log)]>>

\* if not DISCORD_WEBHOOK_URL: raise
CheckWebhook ==
    /\ pc = "main"
    /\ IF webhookUrl = ""
       THEN Raise(<<"DISCORD_WEBHOOK_URL env var is missing.">>)
       ELSE pc' = "fetch" /\ UNCHANGED runErr
    /\ UNCHANGED <<webhookUrl, stateFile, run, fetchLog, sleeps, data, post,
                   lastId, imgUrl, webhook, downloads, writes, fileAtStart,
                   selIds, okPosts, okRun, calVars>>

\* one pass of the retry loop: http_get_json returns the search JSON (break)
\* or raises (last_err = e; sleep)
FetchAttempt ==
    /\ pc = "fetch"
    /\ LoopRuns(Len(fetchLog))
    /\ \/ \E children \in Feeds :
            /\ data' = <<children>>
            /\ fetchLog' = Append(fetchLog, <<"ok">>)
            /\ pc' = "choose"
            /\ UNCHANGED sleeps
       \/ /\ fetchLog' = Append(fetchLog, FetchError(Len(fetchLog)))
          /\ sleeps' = Append(sleeps, Delay(Len(fetchLog)))
          /\ UNCHANGED <<data, pc>>
    /\ UNCHANGED <<webhookUrl, stateFile, run, post, lastId, imgUrl, webhook,
                   downloads, writes, runErr, fileAtStart, selIds, okPosts,
                   okRun, calVars>>

\* the loop ran out: if data is None: raise
FetchGiveUp ==
    /\ pc = "fetch"
    /\ ~LoopRuns(Len(fetchLog))
    /\ Raise(FetchFailure(fetchLog))
    /\ UNCHANGED <<webhookUrl, stateFile, run, fetchLog, sleeps, data, post,
                   lastId, imgUrl, webhook, downloads, writes, fileAtStart,
                   selIds, okPosts, okRun, calVars>>

\* post = choose_latest_weekly_earnings_post(data); if not post: raise
Choose ==
    /\ pc = "choose"
    /\ post' = choose_latest_weekly_earnings_post(data[1])
    /\ IF post' = <<>>
       THEN Raise(<<"No posts found in Reddit search.">>) /\ UNCHANGED selIds
       ELSE /\ pc' = "guard"
            /\ selIds' = selIds \cup {post'[1].id}
            /\ UNCHANGED runErr
    /\ UNCHANGED <<webhookUrl, stateFile, run, fetchLog, sleeps, data, lastId,
                   imgUrl, webhook, downloads, writes, fileAtStart, okPosts,
                   okRun, calVars>>

\* last_id = read_last_post_id(); if ... post_id == last_id: return
Guard ==
    /\ pc = "guard"
    /\ lastId' = read_last_post_id(stateFile)
    /\ pc' = IF IsDuplicate(lastId', post[1].id) THEN "done" ELSE "extract"
    /\ UNCHANGED <<webhookUrl, stateFile, run, fetchLog, sleeps, data, post,
                   imgUrl, webhook, downloads, writes, runErr, fileAtStart,
                   selIds, okPosts, okRun, calVars>>

\* mutant: a post without image ends the run with no notice
ExtractSilent ==
    /\ pc = "extract"
    /\ imgUrl' = extract_best_image_url(post[1])
    /\ pc' = IF Truthy(imgUrl') THEN "download" ELSE "done"
    /\ UNCHANGED <<webhookUrl, stateFile, run, fetchLog, sleeps, data, post,
                   lastId, webhook, downloads, writes, runErr, fileAtStart,
                   selIds, okPosts, okRun, calVars>>

\* img_url = extract_best_image_url(post); if not img_url: ...
Extract ==
    /\ pc = "extract"
    /\ imgUrl' = extract_best_image_url(post[1])
    /\ pc' = IF Truthy(imgUrl') THEN "download" ELSE "notice"
    /\ UNCHANGED <<webhookUrl, stateFile, run, fetchLog, sleeps, data, post,
                   lastId, webhook, downloads, writes, runErr, fileAtStart,
                   selIds, okPosts, okRun, calVars>>

\* mutant: the response's status is not checked, a failed POST goes on
WebhookPostNoRaise(kind) ==
    \E ok \in BOOLEAN :
        /\ webhook' = Append(webhook, [kind |-> kind, ok |-> ok])
        /\ pc' = "write"
        /\ okPosts' = IF ok THEN okPosts + 1 ELSE okPosts
        /\ okRun' = IF ok /\ okRun = 0 THEN run ELSE okRun
        /\ UNCHANGED runErr

\* a webhook POST of the given kind: it returns success, or raise_for_status
\* (or the request itself) raises
WebhookPost(kind) ==
    \E ok \in BOOLEAN :
        /\ webhook' = Append(webhook, [kind |-> kind, ok |-> ok])
        /\ IF ok
           THEN /\ pc' = "write"
                /\ okPosts' = okPosts + 1
                /\ okRun' = IF okRun = 0 THEN run ELSE okRun
                /\ UNCHANGED runErr
           ELSE /\ Raise(<<"HTTPError", "webhook">>)
                /\ UNCHANGED <<okPosts, okRun>>

\* requests.post(DISCORD_WEBHOOK_URL, data={"content": msg}); raise_for_status
Notice ==
    /\ pc = "notice"
    /\ WebhookPost("text")
    /\ UNCHANGED <<webhookUrl, stateFile, run, fetchLog, sleeps, data, post,
                   lastId, imgUrl, downloads, writes, fileAtStart, selIds,
                   calVars>>

\* download_image(img_url, tmp)
Download ==
    /\ pc = "download"
    /\ \E ok \in BOOLEAN :
        /\ downloads' = Append(downloads, [url |-> imgUrl, ok |-> ok])
        /\ IF ok
           THEN pc' = "post" /\ UNCHANGED runErr
           ELSE Raise(<<"HTTPError", "download">>)
    /\ UNCHANGED <<webhookUrl, stateFile, run, fetchLog, sleeps, data, post,
                   lastId, imgUrl, webhook, writes, fileAtStart, selIds,
                   okPosts, okRun, calVars>>

\* post_to_discord(DISCORD_WEBHOOK_URL, tmp, msg)
PostImage ==
    /\ pc = "post"
    /\ WebhookPost("file")
    /\ UNCHANGED <<webhookUrl, stateFile, run, fetchLog, sleeps, data, post,
                   lastId, imgUrl, downloads, writes, fileAtStart, selIds,
                   calVars>>

\* mutant: the identifier is not persisted
WriteStateSkipped ==
    /\ pc = "write"
    /\ pc' = "done"
    /\ UNCHANGED <<webhookUrl, stateFile, run, fetchLog, sleeps, data, post,
                   lastId, imgUrl, webhook, downloads, writes, runErr,
                   fileAtStart, selIds, okPosts, okRun, calVars>>

\* if post_id: write_last_post_id(post_id); then the run returns
WriteState ==
    /\ pc = "write"
    /\ IF Truthy(post[1].id)
       THEN /\ stateFile' = write_last_post_id(post[1].id)
            /\ writes' = writes + 1
       ELSE UNCHANGED <<stateFile, writes>>
    /\ pc' = "done"
    /\ UNCHANGED <<webhookUrl, run, fetchLog, sleeps, data, post, lastId,
                   imgUrl, webhook, downloads, runErr, fileAtStart, selIds,
                   okPosts, okRun, calVars>>

\* the scheduler starts the next run after the previous one has ended
NextRun ==
    /\ pc \in {"done", "aborted"}
    /\ run < MaxRuns
    /\ run' = run + 1
    /\ pc' = "main"
    /\ fileAtStart' = stateFile
    /\ fetchLog' = <<>>
    /\ sleeps' = <<>>
    /\ data' = <<>>
    /\ post' = <<>>
    /\ lastId' = None
    /\ imgUrl' = None
    /\ webhook' = <<>>
    /\ downloads' = <<>>
    /\ writes' = 0
    /\ runErr' = NoErr
    /\ UNCHANGED <<webhookUrl, stateFile, selIds, okPosts, okRun, calVars>>

Next ==
    \/ CheckWebhook
    \/ FetchAttempt
    \/ FetchGiveUp
    \/ Choose
    \/ Guard
    \/ Extract
    \/ Notice
    \/ Download
    \/ PostImage
    \/ WriteState
    \/ NextRun

Spec == Init /\ [][Next]_vars

-----------------------------------------------------------------------------
(* Properties of the forum relay, checked under Spec *)

Ended == pc \in {"done", "aborted"}
PostedOk == \E i \in 1..Len(webhook) : webhook[i].ok
Failures(log) == {i \in 1..Len(log) : log[i] # <<"ok">>}

\* the state file of this run held the identifier of the selected post
HeldSelectedId ==
    /\ post # <<>>
    /\ Truthy(post[1].id)
    /\ fileAtStart.exists
    /\ strip(fileAtStart.text) = post[1].id

\* C1: duplicate guard.  In a run whose state file holds the identifier of
\* the post the chooser selected, the run goes from the guard straight to a
\* successful end: no webhook POST, no image download, no error, and the
\* state file is what it was when the run started.
C1_DuplicateGuard ==
    HeldSelectedId =>
        /\ pc \in {"guard", "done"}
        /\ webhook = <<>>
        /\ downloads = <<>>
        /\ runErr = NoErr
        /\ writes = 0
        /\ stateFile = fileAtStart

\* C1 witness: a run ended by the guard, the file holding "a\n" and the
\* selected post having the id "a"
C1_Witness ==
    /\ HeldSelectedId
    /\ pc = "done"
    /\ fileAtStart.text = <<"a", "\n">>
    /\ lastId = <<"a">>

\* C2 (as amended): the state file is written only after a webhook POST of
\* the run has returned success; a run that aborts leaves the file as it
\* was; a run that has posted and ended holds the identifier of the relayed
\* post in the file when that identifier is non-empty, and leaves the file
\* as it was when the post has no identifier.
C2_WriteAfterRelay ==
    /\ writes > 0 => webhook # <<>> /\ webhook[Len(webhook)].ok
    /\ stateFile # fileAtStart => writes > 0
    /\ pc = "aborted" => stateFile = fileAtStart /\ writes = 0
    /\ (pc = "done" /\ PostedOk) =>
          IF Truthy(post[1].id)
          THEN stateFile = [exists |-> TRUE, text |-> post[1].id] /\ writes = 1
          ELSE stateFile = fileAtStart /\ writes = 0

\* C2 witness: a run that relayed the post "a" and replaced the file's "b"
C2_Witness ==
    /\ pc = "done"
    /\ PostedOk
    /\ post[1].id = <<"a">>
    /\ fileAtStart.text = <<"b">>
    /\ stateFile.text = <<"a">>

\* C2 as stated: ... and after each run whose relay succeeds the state file
\* holds the identifier of the post just relayed.
C2_Original ==
    /\ writes > 0 => webhook # <<>> /\ webhook[Len(webhook)].ok
    /\ stateFile # fileAtStart => writes > 0
    /\ pc = "aborted" => stateFile = fileAtStart /\ writes = 0
    /\ (pc = "done" /\ PostedOk) =>
          stateFile = [exists |-> TRUE, text |-> post[1].id]

\* the selected post is not stopped by the guard and has no image
NoImageCase ==
    /\ post # <<>>
    /\ ~IsDuplicate(read_last_post_id(fileAtStart), post[1].id)
    /\ ~Truthy(extract_best_image_url(post[1]))

\* C4 (as amended): when the search succeeds, a post is selected, the
\* duplicate guard does not stop the run and the post yields no image URL,
\* the run makes exactly one webhook POST, a text-only one, and downloads
\* nothing; when the search succeeds and no candidate is found, the run
\* aborts with "No posts found in Reddit search." and makes no POST.
C4_NoImageNotice ==
    /\ (NoImageCase /\ pc \in {"write", "done", "aborted"}) =>
          /\ Len(webhook) = 1
          /\ webhook[1].kind = "text"
          /\ downloads = <<>>
    /\ (Ended /\ data # <<>> /\ post = <<>>) =>
          /\ pc = "aborted"
          /\ runErr = <<"No posts found in Reddit search.">>
          /\ webhook = <<>>

\* C4 witness: a run that ended after a successful text-only notice
C4_Witness ==
    /\ NoImageCase
    /\ pc = "done"
    /\ webhook = <<[kind |-> "text", ok |-> TRUE]>>

\* C4 as stated: when the search succeeds and either no candidate is found
\* or the selected post yields no image URL, the ended run has sent a
\* text-only notice.
C4_Original ==
    (Ended /\ data # <<>>
       /\ (post = <<>> \/ ~Truthy(extract_best_image_url(post[1])))) =>
        \E i \in 1..Len(webhook) : webhook[i].kind = "text"

\* C6: bounded retry.  At most 3 search attempts, none after a success;
\* the k-th failure is followed by a sleep of k + 1, so the delay grows by
\* one from each failed attempt to the next; after 3 failures the run
\* aborts carrying the third failure, with no webhook POST and no write of
\* the state file.
C6_BoundedRetry ==
    /\ Len(fetchLog) <= 3
    /\ \A i \in 1..Len(fetchLog) : fetchLog[i] = <<"ok">> => i = Len(fetchLog)
    /\ data # <<>> <=> (fetchLog # <<>> /\ fetchLog[Len(fetchLog)] = <<"ok">>)
    /\ Len(sleeps) = Cardinality(Failures(fetchLog))
    /\ \A k \in 1..Len(sleeps) : sleeps[k] = k + 1
    /\ Cardinality(Failures(fetchLog)) = 3 =>
          /\ pc \in {"fetch", "aborted"}
          /\ webhook = <<>>
          /\ writes = 0
          /\ stateFile = fileAtStart
          /\ pc = "aborted" =>
                runErr = <<"Failed to fetch Reddit search JSON", fetchLog[3]>>

\* C6 witness: a run aborted after three failed attempts
C6_Witness ==
    /\ pc = "aborted"
    /\ Cardinality(Failures(fetchLog)) = 3
    /\ sleeps = <<2, 3, 4>>

\* every run so far selected a post with the same non-empty identifier
SamePostEveryRun == \E id \in selIds : Truthy(id) /\ selIds = {id}

\* C10: no repeated relay.  While every run selects a post with the same
\* non-empty identifier, at most one webhook POST succeeds over all runs,
\* and a run after the one that posted successfully makes no webhook POST.
C10_NoRepeatedRelay ==
    SamePostEveryRun =>
        /\ okPosts <= 1
        /\ (okRun # 0 /\ run > okRun) => webhook = <<>> /\ downloads = <<>>

\* C10 witness: the first run relayed the post, a later run selected it
\* again and ended at the guard
C10_Witness ==
    /\ SamePostEveryRun
    /\ okRun = 1
    /\ run > 1
    /\ post # <<>>
    /\ pc = "done"

-----------------------------------------------------------------------------
(* The chooser on its own: any search result, then the call *)

InitChoose ==
    /\ webhookUrl = ""
    /\ stateFile = [exists |-> FALSE, text |-> <<>>]
    /\ fileAtStart = stateFile
    /\ pc = "chooser"
    /\ run = 1
    /\ fetchLog = <<>>
    /\ sleeps = <<>>
    /\ data \in {<<children>> : children \in ChooserFeeds}
    /\ post = <<>>
    /\ lastId = None
    /\ imgUrl = None
    /\ webhook = <<>>
    /\ downloads = <<>>
    /\ writes = 0
    /\ runErr = NoErr
    /\ NoHistory
    /\ CalOff

ChooseApply ==
    /\ pc = "chooser"
    /\ post' = choose_latest_weekly_earnings_post(data[1])
    /\ pc' = "chosen"
    /\ UNCHANGED <<webhookUrl, stateFile, run, fetchLog, sleeps, data, lastId,
                   imgUrl, webhook, downloads, writes, runErr, fileAtStart,
                   selIds, okPosts, okRun, calVars>>

NextChoose == ChooseApply

SpecChoose == InitChoose /\ [][NextChoose]_vars

\* C3 as stated: the chooser returns a candidate of the highest score when
\* some candidate scores at least 4; otherwise the candidate with the
\* greatest creation timestamp; and no candidate only when the result set
\* has no posts.
C3_Original ==
    pc = "chosen" =>
        LET posts == PostsOf(data[1])
            idx == 1..Len(posts)
        IN  /\ post = <<>> <=> posts = <<>>
            /\ (\E i \in idx : score(posts[i]) >= 4) =>
                  /\ post # <<>>
                  /\ \E i \in idx : posts[i] = post[1]
                  /\ \A i \in idx : score(posts[i]) <= score(post[1])
            /\ (posts # <<>> /\ \A i \in idx : score(posts[i]) < 4) =>
                  /\ post # <<>>
                  /\ \E i \in idx : posts[i] = post[1]
                  /\ \A i \in idx : posts[i].created_utc <= post[1].created_utc

-----------------------------------------------------------------------------
(* The image extractor on its own: any post, then the call *)

InitImage ==
    /\ webhookUrl = ""
    /\ stateFile = [exists |-> FALSE, text |-> <<>>]
    /\ fileAtStart = stateFile
    /\ pc = "extractor"
    /\ run = 1
    /\ fetchLog = <<>>
    /\ sleeps = <<>>
    /\ data = <<>>
    /\ post \in {<<p>> : p \in ImagePosts}
    /\ lastId = None
    /\ imgUrl = None
    /\ webhook = <<>>
    /\ downloads = <<>>
    /\ writes = 0
    /\ runErr = NoErr
    /\ NoHistory
    /\ CalOff

ExtractApply ==
    /\ pc = "extractor"
    /\ imgUrl' = extract_best_image_url(post[1])
    /\ pc' = "extracted"
    /\ UNCHANGED <<webhookUrl, stateFile, run, fetchLog, sleeps, data, post,
                   lastId, webhook, downloads, writes, runErr, fileAtStart,
                   selIds, okPosts, okRun, calVars>>

NextImage == ExtractApply

SpecImage == InitImage /\ [][NextImage]_vars

Area(m) == m.x * m.y
HasGalleryAndPreview(p) ==
    p.media_metadata # <<>> /\ p.preview # <<>> /\ Truthy(p.preview[1])

\* gallery entries that carry a URL and a positive width and height
Usable(p) ==
    {i \in 1..Len(p.media_metadata) :
        /\ Truthy(p.media_metadata[i].u)
        /\ p.media_metadata[i].x > 0
        /\ p.media_metadata[i].y > 0}

\* the first usable entry among those of the largest area
Largest(p) ==
    CHOOSE i \in Usable(p) :
        \A j \in Usable(p) :
            \/ Area(p.media_metadata[j]) < Area(p.media_metadata[i])
            \/ Area(p.media_metadata[j]) = Area(p.media_metadata[i]) /\ i <= j

NoCrossImage(p) ==
    \/ p.crosspost_parent_list = <<>>
    \/ ~Truthy(extract_best_image_url(p.crosspost_parent_list[1]))

\* C7 (as amended): for a post with gallery metadata and a preview image,
\* whose first crosspost parent, if any, yields no image, and with at least
\* one gallery entry that has a URL and a positive width and height, the
\* extractor returns the HTML-unescaped URL of the first such entry of the
\* largest area, and not the preview image's URL.
C7_GalleryBeforePreview ==
    (pc = "extracted" /\ HasGalleryAndPreview(post[1])
       /\ NoCrossImage(post[1]) /\ Usable(post[1]) # {}) =>
        /\ imgUrl = html_unescape(post[1].media_metadata[Largest(post[1])].u)
        /\ imgUrl # html_unescape(post[1].preview[1])

\* C7 witness: the second, larger gallery entry wins over the first entry
\* and over the preview, and its URL comes back unescaped
C7_Witness ==
    /\ pc = "extracted"
    /\ HasGalleryAndPreview(post[1])
    /\ post[1].crosspost_parent_list = <<>>
    /\ Len(post[1].media_metadata) = 2
    /\ Usable(post[1]) = {1, 2}
    /\ Largest(post[1]) = 2
    /\ post[1].media_metadata[2].u = UrlG2
    /\ imgUrl = <<"preview.redd.it", "/g2", ".jpg", "?w=1", "&", "s=2">>

\* C7 as stated: for every post with gallery metadata and a preview image
\* the extractor returns the URL of a gallery entry of the largest area.
C7_Original ==
    (pc = "extracted" /\ HasGalleryAndPreview(post[1])) =>
        \E i \in 1..Len(post[1].media_metadata) :
            /\ imgUrl = post[1].media_metadata[i].u
            /\ \A j \in 1..Len(post[1].media_metadata) :
                  Area(post[1].media_metadata[j]) <= Area(post[1].media_metadata[i])

-----------------------------------------------------------------------------
(* generate_and_post.py: dates.  A date is its proleptic Gregorian ordinal *)
(* (date.toordinal()); an ISO string "YYYY-MM-DD" is <<year, month, day>>.  *)

\* date.weekday(): Monday is 0
weekday(d) == (d + 6) % 7

\* mutant: the jump is not reduced modulo 7, a Monday gives the next Monday
NextMondayStrict(d) == d + (7 - weekday(d))

\* today_utc + relativedelta(weekday=MO(0)): n = 0 counts as +1, the jump
\* is (7 - weekday + MO) % 7 days
NextMonday(d) == d + ((7 - weekday(d) + 0) % 7)

next_monday_to_friday(today_utc) ==
    LET mon == NextMonday(today_utc) IN <<mon, mon + 4>>

DaysBeforeMonth(m, leap) ==
    LET t == <<0, 31, 59, 90, 120, 151, 181, 212, 243, 273, 304, 334>>
    IN  t[m] + (IF m > 2 /\ leap THEN 1 ELSE 0)

DaysInMonth(m, leap) ==
    LET t == <<31, 28, 31, 30, 31, 30, 31, 31, 30, 31, 30, 31>>
    IN  t[m] + (IF m = 2 /\ leap THEN 1 ELSE 0)

\* date.isoformat() of the date with ordinal d (the library's ord2ymd)
isoformat(d) ==
    LET n0 == d - 1
        n400 == n0 \div 146097
        r400 == n0 % 146097
        n100 == r400 \div 36524
        r100 == r400 % 36524
        n4 == r100 \div 1461
        r4 == r100 % 1461
        n1 == r4 \div 365
        n == r4 % 365
        year == n400 * 400 + 1 + n100 * 100 + n4 * 4 + n1
        leap == n1 = 3 /\ (n4 # 24 \/ n100 = 3)
        m0 == (n + 50) \div 32
        early == DaysBeforeMonth(m0, leap) > n
        month == IF early THEN m0 - 1 ELSE m0
        preceding == IF early
                     THEN DaysBeforeMonth(m0, leap) - DaysInMonth(m0 - 1, leap)
                     ELSE DaysBeforeMonth(m0, leap)
    IN  IF n1 = 4 \/ n100 = 4 THEN <<year - 1, 12, 31>>
        ELSE <<year, month, n - preceding + 1>>

-----------------------------------------------------------------------------
(* generate_and_post.py: build_week *)

\* a dict in insertion order: its keys, and the value of each key
EmptyDict == [keys |-> <<>>, val |-> <<>>]
HasKey(dict, k) == \E i \in 1..Len(dict.keys) : dict.keys[i] = k
Get(dict, k) == dict.val[CHOOSE i \in 1..Len(dict.keys) : dict.keys[i] = k]
SetKey(dict, k, v) ==
    IF HasKey(dict, k)
    THEN [dict EXCEPT !.val[CHOOSE i \in 1..Len(dict.keys) : dict.keys[i] = k] = v]
    ELSE [keys |-> Append(dict.keys, k), val |-> Append(dict.val, v)]

\* while d <= friday: days[d.isoformat()] = {"earnings": [], "macro": []}
RECURSIVE EmptyDays(_, _, _)
EmptyDays(days, d, fri) ==
    IF d <= fri
    THEN EmptyDays(SetKey(days, isoformat(d), [earnings |-> <<>>, macro |-> <<>>]),
                   d + 1, fri)
    ELSE days

\* for ev in macro_events: if day in days: days[day]["macro"].append(ev)
RECURSIVE AttachMacro(_, _)
AttachMacro(days, events) ==
    IF events = <<>> THEN days
    ELSE LET ev == Head(events)
             next == IF HasKey(days, ev.date)
                     THEN SetKey(days, ev.date,
                            [Get(days, ev.date) EXCEPT !.macro = Append(@, ev)])
                     ELSE days
         IN  AttachMacro(next, Tail(events))

\* mutant: a cap of exactly the threshold is dropped too
CapTooSmallInclusive(caps, sym) ==
    sym \notin DOMAIN caps \/ caps[sym] <= MIN_MCAP

\* if cap is None or cap < MIN_MCAP: continue
CapTooSmall(caps, sym) == sym \notin DOMAIN caps \/ caps[sym] < MIN_MCAP

\* for e in earnings: ... days[day]["earnings"].append({...})
RECURSIVE AttachEarnings(_, _, _)
AttachEarnings(days, rows, caps) ==
    IF rows = <<>> THEN days
    ELSE LET e == Head(rows)
             next == IF ~HasKey(days, e.date) \/ CapTooSmall(caps, e.symbol)
                     THEN days
                     ELSE SetKey(days, e.date,
                            [Get(days, e.date) EXCEPT !.earnings =
                                Append(@, [symbol |-> e.symbol, name |-> e.name,
                                           time |-> e.time,
                                           marketCap |-> caps[e.symbol]])])
         IN  AttachEarnings(next, Tail(rows), caps)

\* list.sort(key=marketCap, reverse=True): stable, descending
RECURSIVE InsertByCap(_, _)
InsertByCap(sorted, e) ==
    IF sorted = <<>> THEN <<e>>
    ELSE IF Head(sorted).marketCap < e.marketCap THEN <<e>> \o sorted
    ELSE <<Head(sorted)>> \o InsertByCap(Tail(sorted), e)

RECURSIVE SortByCap(_)
SortByCap(list) ==
    IF list = <<>> THEN <<>>
    ELSE InsertByCap(SortByCap(SubSeq(list, 1, Len(list) - 1)), list[Len(list)])

SortDays(days) ==
    [days EXCEPT !.val =
        [i \in 1..Len(days.val) |->
            [days.val[i] EXCEPT !.earnings = SortByCap(@)]]]

build_week(mon, fri, rows, caps, events) ==
    SortDays(AttachEarnings(AttachMacro(EmptyDays(EmptyDict, mon, fri), events),
                            rows, caps))

-----------------------------------------------------------------------------
(* generate_and_post.py: render_calendar_png *)

\* the column of date d: week_days[day_key]["macro"][:5], then ev["title"]
\* of each, raises KeyError when the key is not there
ColumnRaises(week, d) ==
    \/ ~HasKey(week, isoformat(d))
    \/ \E i \in 1..Len(Get(week, isoformat(d)).macro) :
          i <= 5 /\ "title" \notin DOMAIN Get(week, isoformat(d)).macro[i]

\* dates = [monday + timedelta(days=i) for i in range(5)]
RenderRaises(week, mon) == \E i \in 0..4 : ColumnRaises(week, mon + i)

-----------------------------------------------------------------------------
(* Inputs of the calendar builder *)

\* run days: Sat 2024-02-24 .. Fri 2024-03-01 (leap day, month end) and
\* Fri 2024-12-27 .. Thu 2025-01-02 (year end)
Todays == (738940..738946) \cup (739247..739253)

Symbols == {"AAA", "BBB"}
CapValues == {MIN_MCAP - 1, MIN_MCAP, MIN_MCAP + 1}
CapMaps(syms) == UNION {[D -> CapValues] : D \in SUBSET syms}

\* normalised earnings rows of the week of mon: both symbols on Monday,
\* one on Tuesday, one on the Saturday after it, which is no key of the week
Rows(mon) ==
    {[symbol |-> r[1], date |-> isoformat(r[2]), time |-> "", name |-> ""] :
        r \in {<<"AAA", mon>>, <<"BBB", mon>>, <<"AAA", mon + 1>>,
               <<"BBB", mon + 5>>}}

\* rows as the earnings endpoint returns them: "" is a missing field, the
\* date may carry a time of day after its first 10 characters
RawRows(mon) ==
    {[symbol |-> sym, date |-> d] :
        sym \in Symbols \cup {""},
        d \in {<<>>, isoformat(mon), isoformat(mon + 1) \o <<" 00:00:00">>}}

\* macro events as fetch_macro_events_fmp builds them
MacroEvent(d) == [date |-> isoformat(d), time |-> "", label |-> "CPI"]
MacroLists(mon) == {<<>>, <<MacroEvent(mon + 1), MacroEvent(mon + 6)>>}

ForumOff ==
    /\ webhookUrl = ""
    /\ stateFile = [exists |-> FALSE, text |-> <<>>]
    /\ fileAtStart = stateFile
    /\ pc = "off"
    /\ run = 1
    /\ FreshLocals
    /\ NoHistory

-----------------------------------------------------------------------------
(* build_week and render_calendar_png on their own: any run day, any rows, *)
(* caps and macro events, then the calls                                    *)

InitWeek ==
    /\ ForumOff
    /\ cpc = "resolve"
    /\ apiKey = "key"
    /\ today \in Todays
    /\ monday = 0
    /\ friday = 0
    /\ earnings = <<>>
    /\ market_caps = [sym \in {} |-> 0]
    /\ macro = <<>>
    /\ week_days = <<>>
    /\ rendered = FALSE
    /\ calErr = NoErr

ResolveWeek ==
    /\ cpc = "resolve"
    /\ monday' = next_monday_to_friday(today)[1]
    /\ friday' = next_monday_to_friday(today)[2]
    /\ cpc' = "build"
    /\ UNCHANGED <<forumVars, apiKey, today, earnings, market_caps, macro,
                   week_days, rendered, calErr>>

BuildWeek ==
    /\ cpc = "build"
    /\ \E rows \in SeqsUpTo(Rows(monday), MaxRows),
          caps \in CapMaps(Symbols),
          events \in MacroLists(monday) :
            /\ earnings' = rows
            /\ market_caps' = caps
            /\ macro' = events
            /\ week_days' = <<build_week(monday, friday, rows, caps, events)>>
    /\ cpc' = "render"
    /\ UNCHANGED <<forumVars, apiKey, today, monday, friday, rendered, calErr>>

RenderWeek ==
    /\ cpc = "render"
    /\ IF RenderRaises(week_days[1], monday)
       THEN /\ cpc' = "aborted"
            /\ calErr' = <<"KeyError", "title">>
            /\ UNCHANGED rendered
       ELSE /\ cpc' = "rendered"
            /\ rendered' = TRUE
            /\ UNCHANGED calErr
    /\ UNCHANGED <<forumVars, apiKey, today, monday, friday, earnings,
                   market_caps, macro, week_days>>

NextWeek == ResolveWeek \/ BuildWeek \/ RenderWeek

SpecWeek == InitWeek /\ [][NextWeek]_vars

-----------------------------------------------------------------------------
(* generate_and_post.py: main(), one action per step *)

\* fetch_earnings_fmp: rows without symbol or date are skipped, d[:10]
RECURSIVE NormaliseRows(_)
NormaliseRows(raw) ==
    IF raw = <<>> THEN <<>>
    ELSE LET row == Head(raw)
         IN  IF row.symbol = "" \/ row.date = <<>>
             THEN NormaliseRows(Tail(raw))
             ELSE <<[symbol |-> row.symbol, date |-> SubSeq(row.date, 1, 3),
                     time |-> "", name |-> ""]>> \o NormaliseRows(Tail(raw))

InitCalendar ==
    /\ ForumOff
    /\ cpc = "main"
    /\ apiKey \in {"", "key"}
    /\ today \in Todays
    /\ monday = 0
    /\ friday = 0
    /\ earnings = <<>>
    /\ market_caps = [sym \in {} |-> 0]
    /\ macro = <<>>
    /\ week_days = <<>>
    /\ rendered = FALSE
    /\ calErr = NoErr

\* monday, friday = next_monday_to_friday(today_utc)
CalDates ==
    /\ cpc = "main"
    /\ monday' = next_monday_to_friday(today)[1]
    /\ friday' = next_monday_to_friday(today)[2]
    /\ cpc' = "earnings"
    /\ UNCHANGED <<forumVars, apiKey, today, earnings, market_caps, macro,
                   week_days, rendered, calErr>>

\* earnings = fetch_earnings_fmp(monday, friday): [] without a key, [] when
\* the request fails, else the normalised rows
CalFetchEarnings ==
    /\ cpc = "earnings"
    /\ IF apiKey = ""
       THEN earnings' = <<>>
       ELSE \/ earnings' = <<>>
            \/ \E raw \in SeqsUpTo(RawRows(monday), MaxRows) :
                  earnings' = NormaliseRows(raw)
    /\ cpc' = "caps"
    /\ UNCHANGED <<forumVars, apiKey, today, monday, friday, market_caps,
                   macro, week_days, rendered, calErr>>

\* market_caps = fetch_market_caps_fmp(symbols): {} without a key or
\* symbols; a symbol whose request fails or whose cap is unusable is left out
CalFetchCaps ==
    /\ cpc = "caps"
    /\ LET symbols == {earnings[i].symbol : i \in 1..Len(earnings)}
       IN  IF apiKey = "" \/ symbols = {}
           THEN market_caps' = [sym \in {} |-> 0]
           ELSE \E caps \in CapMaps(symbols) : market_caps' = caps
    /\ cpc' = "macro"
    /\ UNCHANGED <<forumVars, apiKey, today, monday, friday, earnings, macro,
                   week_days, rendered, calErr>>

\* macro = fetch_macro_events(monday, friday): the module defines no such
\* name (the fetcher is fetch_macro_events_fmp), the call raises NameError
CalFetchMacro ==
    /\ cpc = "macro"
    /\ cpc' = "aborted"
    /\ calErr' = <<"NameError", "fetch_macro_events">>
    /\ UNCHANGED <<forumVars, apiKey, today, monday, friday, earnings,
                   market_caps, macro, week_days, rendered>>

NextCalendar == CalDates \/ CalFetchEarnings \/ CalFetchCaps \/ CalFetchMacro

SpecCalendar == InitCalendar /\ [][NextCalendar]_vars

-----------------------------------------------------------------------------
(* Properties of the calendar builder *)

\* the ordinal of the date an ISO string names (date.fromisoformat, then
\* toordinal), computed from the calendar rules and not from isoformat
IsLeap(y) == y % 4 = 0 /\ (y % 100 # 0 \/ y % 400 = 0)
DaysBeforeYear(y) ==
    LET p == y - 1 IN p * 365 + p \div 4 - p \div 100 + p \div 400
OrdinalOf(iso) ==
    DaysBeforeYear(iso[1]) + DaysBeforeMonth(iso[2], IsLeap(iso[1])) + iso[3]

WeekBuilt == week_days # <<>>
Qualifies(sym) == sym \in DOMAIN market_caps /\ market_caps[sym] >= 100000000

CalEnded == cpc \in {"posted", "aborted"}

\* C5 as stated: whatever the fetches did (no key, failure, success), the
\* run that has ended has built the week structure and rendered the
\* calendar image; it has not aborted before or during rendering.
C5_Original == CalEnded => (WeekBuilt /\ rendered)

\* C8: week aggregator.  Every entry of a day's earnings list is a symbol
\* with a known cap of at least 100,000,000 and carries that cap; for each
\* symbol the list holds as many entries as there are rows of that day and
\* symbol that qualify; and the caps along the list never increase.
C8_WeekAggregator ==
    WeekBuilt =>
        \A k \in 1..Len(week_days[1].keys) :
            LET key == week_days[1].keys[k]
                list == week_days[1].val[k].earnings
            IN  /\ \A i \in 1..Len(list) :
                      /\ Qualifies(list[i].symbol)
                      /\ list[i].marketCap = market_caps[list[i].symbol]
                /\ \A sym \in Symbols :
                      Cardinality({i \in 1..Len(list) : list[i].symbol = sym})
                      = Cardinality({j \in 1..Len(earnings) :
                                        /\ earnings[j].date = key
                                        /\ earnings[j].symbol = sym
                                        /\ Qualifies(sym)})
                /\ \A i, j \in 1..Len(list) :
                      i < j => list[i].marketCap >= list[j].marketCap

\* C8 witness: Monday's rows come as AAA, BBB, AAA with BBB's cap above
\* AAA's, AAA at the threshold; Monday's list is BBB, AAA (the Tuesday row
\* went to Tuesday), and BBB's Saturday row is in no list
C8_Witness ==
    /\ WeekBuilt
    /\ Len(earnings) = 3
    /\ earnings[1].symbol = "AAA" /\ earnings[1].date = isoformat(monday)
    /\ earnings[2].symbol = "BBB" /\ earnings[2].date = isoformat(monday)
    /\ earnings[3].symbol = "AAA" /\ earnings[3].date = isoformat(monday + 1)
    /\ Qualifies("AAA") /\ market_caps["AAA"] = 100000000
    /\ Qualifies("BBB") /\ market_caps["BBB"] = 100000001
    /\ Len(week_days[1].val[1].earnings) = 2
    /\ week_days[1].val[1].earnings[1].symbol = "BBB"
    /\ Len(week_days[1].val[2].earnings) = 1

\* C9: week keys.  The resolved Monday is the first Monday on or after the
\* run day (the run day itself when it is a Monday), Friday is four days
\* later, and the week structure has exactly 5 keys: the ISO dates of
\* Monday to Friday in calendar order, whatever the earnings and macro
\* inputs are.
C9_WeekKeys ==
    /\ cpc # "resolve" =>
          /\ monday >= today
          /\ monday - today < 7
          /\ monday % 7 = 1
          /\ friday = monday + 4
    /\ WeekBuilt =>
          /\ Len(week_days[1].keys) = 5
          /\ Len(week_days[1].val) = 5
          /\ \A i \in 1..5 :
                /\ week_days[1].keys[i][2] \in 1..12
                /\ week_days[1].keys[i][3] \in
                      1..DaysInMonth(week_days[1].keys[i][2],
                                     IsLeap(week_days[1].keys[i][1]))
                /\ OrdinalOf(week_days[1].keys[i]) = monday + i - 1

\* C9 witness: run on Monday 2024-12-30 with no earnings and no macro
\* events; the keys run from 2024-12-30 to 2025-01-03
C9_Witness ==
    /\ WeekBuilt
    /\ today = 739250
    /\ monday = today
    /\ earnings = <<>>
    /\ macro = <<>>
    /\ week_days[1].keys = << <<2024, 12, 30>>, <<2024, 12, 31>>, <<2025, 1, 1>>,
                              <<2025, 1, 2>>, <<2025, 1, 3>> >>

=============================================================================
